---- MODULE Spec2Model ----
(***************************************************************************)
(* A model of the SoundCloud artists scraper: the command line entry       *)
(* point (src/main.py), the scraper's fetch and search operations          *)
(* (src/extractors/soundcloud_parser.py), the retrying HTTP client         *)
(* (src/extractors/utils.py) and the JSON export                           *)
(* (src/outputs/exporters.py).                                             *)
(*                                                                         *)
(* The program is sequential.  Each function that performs I/O is a small  *)
(* machine with its own position variable (pc, spc, fpc, hpc); a call sets *)
(* the callee's position, and the caller waits for the callee to reach     *)
(* "returned" or "raised".                                                 *)
(***************************************************************************)
EXTENDS Integers, Sequences, FiniteSets, TLC

VARIABLES
    \* main()
    pc, input_exists, raw, cfg, config, all_artists, pi, ki,
    out_file, writes, exit_code, crash_exc,
    \* SoundCloudArtistScraper.search_artists
    spc, max_items, artists, links, li, failed, s_result, s_exc,
    \* SoundCloudArtistScraper.fetch_artist_profile
    fpc, f_result, f_exc,
    \* http_get
    hpc, attempt, last_exc, hlog, h_exc, requests,
    \* _deduplicate_artists applied to a list of its own
    dd_pc, dd_in, dd_out, dd_twice

mainVars   == <<pc, input_exists, raw, cfg, config, all_artists, pi, ki,
                out_file, writes, exit_code, crash_exc>>
searchVars == <<spc, max_items, artists, links, li, failed, s_result, s_exc>>
fetchVars  == <<fpc, f_result, f_exc>>
httpVars   == <<hpc, attempt, last_exc, hlog, h_exc, requests>>
dedupVars  == <<dd_pc, dd_in, dd_out, dd_twice>>
vars       == <<mainVars, searchVars, fetchVars, httpVars, dedupVars>>

(***************************************************************************)
(* Bounds of the model.                                                    *)
(***************************************************************************)
\* Largest max_retries a scraper of the run is configured with.
MaxRetries == 2
\* Largest max_retries of a lone http_get call.
MaxHttpRetries == 4
\* Longest list of hydration user entries on a search page.
MaxEntries == 2
\* Most profile links on a search page.
MaxLinks == 2
\* Longest record list handed to _deduplicate_artists on its own.
MaxArtists == 3

(***************************************************************************)
(* Small helpers.                                                          *)
(***************************************************************************)
Take(s, n) == IF n <= 0 THEN <<>> ELSE IF n >= Len(s) THEN s ELSE SubSeq(s, 1, n)

IsPrefix(s, t) == Len(s) <= Len(t) /\ SubSeq(t, 1, Len(s)) = s

RECURSIVE Pow2(_)
Pow2(n) == IF n <= 0 THEN 1 ELSE 2 * Pow2(n - 1)

SeqsUpTo(S, n) == UNION {[1..k -> S] : k \in 0..n}

(***************************************************************************)
(* JSON values of the input document.  Every value has the same shape: a   *)
(* type tag, a number (integers and booleans; floats in tenths), a string  *)
(* and a list of items.                                                    *)
(***************************************************************************)
JVal(t, n, s, items) == [t |-> t, n |-> n, s |-> s, items |-> items]
JAbsent     == JVal("absent", 0, "", <<>>)
JNull       == JVal("null", 0, "", <<>>)
JInt(n)     == JVal("int", n, "", <<>>)
JBool(b)    == JVal("bool", IF b THEN 1 ELSE 0, "", <<>>)
JFloat(n10) == JVal("float", n10, "", <<>>)
JInf        == JVal("inf", 0, "", <<>>)
JStr(s)     == JVal("str", 0, s, <<>>)
JDict(n)    == JVal("dict", n, "", <<>>)
JList(xs)   == JVal("list", 0, "", xs)

\* Python truthiness of a value; dict.get of a missing key gives None.
Truthy(v) ==
    CASE v.t \in {"absent", "null"} -> FALSE
      [] v.t \in {"int", "bool", "float", "dict"} -> v.n # 0
      [] v.t = "inf" -> TRUE
      [] v.t = "str" -> v.s # ""
      [] v.t = "list" -> v.items # <<>>

\* str.strip() on the strings the model uses.
Strip(s) ==
    CASE s = "  " -> ""
      [] s = " k2 " -> "k2"
      [] s = " p2 " -> "p2"
      [] OTHER -> s

\* int(v): the integer, or the exception's type.
PyInt(v) ==
    CASE v.t \in {"int", "bool"} -> [ok |-> TRUE, n |-> v.n, err |-> "none"]
      [] v.t = "float" ->
            [ok |-> TRUE,
             n |-> IF v.n >= 0 THEN v.n \div 10 ELSE -((-v.n) \div 10),
             err |-> "none"]
      [] v.t = "inf" -> [ok |-> FALSE, n |-> 0, err |-> "OverflowError"]
      [] v.t = "str" ->
            IF Strip(v.s) = "2" THEN [ok |-> TRUE, n |-> 2, err |-> "none"]
            ELSE [ok |-> FALSE, n |-> 0, err |-> "ValueError"]
      [] OTHER -> [ok |-> FALSE, n |-> 0, err |-> "TypeError"]

\* [x for x in items if isinstance(x, str) and x.strip()]
NonEmptyStrings(items) ==
    LET keep(x) == x.t = "str" /\ Strip(x.s) # ""
        strs == SelectSeq(items, keep)
    IN  [i \in 1..Len(strs) |-> strs[i].s]

\* raw.get(key) or []
GetOrEmptyList(v) == IF Truthy(v) THEN v ELSE JList(<<>>)

NoCfg == [ok |-> FALSE, err |-> "none", profiles |-> <<>>, keywords |-> <<>>,
          maxItemsPerKeyword |-> 0]

CfgError(e) == [NoCfg EXCEPT !.err = e]

DefaultMaxItems == 20

\* load_json_file followed by _normalize_input_config, as main calls them.
_normalize_input_config(doc) ==
    LET profiles == GetOrEmptyList(doc.profiles)
        keywords == GetOrEmptyList(doc.keywords)
        maxraw   == IF doc.maxItemsPerKeyword.t = "absent"
                    THEN JInt(DefaultMaxItems) ELSE doc.maxItemsPerKeyword
        conv     == PyInt(maxraw)
    IN  IF doc.kind = "invalid" THEN CfgError("JSONDecodeError")
        ELSE IF doc.kind # "object" THEN CfgError("AttributeError")
        ELSE IF profiles.t # "list" THEN CfgError("ValueError")
        ELSE IF keywords.t # "list" THEN CfgError("ValueError")
        ELSE IF ~conv.ok
             THEN CfgError(IF conv.err = "OverflowError"
                           THEN "OverflowError" ELSE "ValueError")
        ELSE IF conv.n <= 0 THEN CfgError("ValueError")
        ELSE [ok |-> TRUE, err |-> "none",
              profiles |-> NonEmptyStrings(profiles.items),
              keywords |-> NonEmptyStrings(keywords.items),
              maxItemsPerKeyword |-> conv.n]

(***************************************************************************)
(* Artist records and deduplication.                                       *)
(***************************************************************************)
Null == "null"

Artist(id, url, name) == [id |-> id, permalink_url |-> url, username |-> name]

NoKey == <<>>

\* The key of lines 109-113: id when it is not None, else a truthy url.
ArtistKey(a) ==
    IF a.id # Null THEN <<"id", a.id>>
    ELSE IF a.permalink_url \notin {Null, ""} THEN <<"url", a.permalink_url>>
    ELSE NoKey

RECURSIVE DedupLoop(_, _, _, _, _)
DedupLoop(as, i, seen_ids, seen_urls, result) ==
    IF i > Len(as) THEN result
    ELSE LET key == ArtistKey(as[i])
         IN  IF key = NoKey
             THEN DedupLoop(as, i + 1, seen_ids, seen_urls, Append(result, as[i]))
             ELSE IF key \in seen_ids \/ key \in seen_urls
             THEN DedupLoop(as, i + 1, seen_ids, seen_urls, result)
             ELSE IF key[1] = "id"
             THEN DedupLoop(as, i + 1, seen_ids \cup {key}, seen_urls,
                            Append(result, as[i]))
             ELSE DedupLoop(as, i + 1, seen_ids, seen_urls \cup {key},
                            Append(result, as[i]))

\* A variant that removes duplicates from the list it iterates over, so the
\* record after a removed one is never examined.
RECURSIVE DedupLoopSkipping(_, _, _, _)
DedupLoopSkipping(as, i, seen, result) ==
    IF i > Len(as) THEN result
    ELSE LET key == ArtistKey(as[i])
         IN  IF key = NoKey
             THEN DedupLoopSkipping(as, i + 1, seen, Append(result, as[i]))
             ELSE IF key \in seen
             THEN IF i + 1 > Len(as) THEN result
                  ELSE DedupLoopSkipping(as, i + 2, seen, Append(result, as[i + 1]))
             ELSE DedupLoopSkipping(as, i + 1, seen \cup {key}, Append(result, as[i]))

DeduplicateSkipping(as) == DedupLoopSkipping(as, 1, {}, <<>>)

\* A variant that looks keys up in seen_ids only.
RECURSIVE DedupLoopIdsOnly(_, _, _, _)
DedupLoopIdsOnly(as, i, seen_ids, result) ==
    IF i > Len(as) THEN result
    ELSE LET key == ArtistKey(as[i])
         IN  IF key # NoKey /\ key \in seen_ids
             THEN DedupLoopIdsOnly(as, i + 1, seen_ids, result)
             ELSE DedupLoopIdsOnly(as, i + 1,
                     IF key # NoKey /\ key[1] = "id" THEN seen_ids \cup {key}
                     ELSE seen_ids,
                     Append(result, as[i]))

DeduplicateIdsOnly(as) == DedupLoopIdsOnly(as, 1, {}, <<>>)

_deduplicate_artists(as) == DedupLoop(as, 1, {}, {}, <<>>)

(***************************************************************************)
(* Exceptions and the I/O log of one http_get call.                        *)
(***************************************************************************)
Exc(type, n) == [type |-> type, attempt |-> n]
NoExc == Exc("None", 0)

\* What requests.get or raise_for_status raises: subclasses of RequestException.
RequestExceptionTypes == {"ConnectionError", "HTTPError"}

ReqEvent(n, err) == [e |-> "req", n |-> n, err |-> err, d |-> 0]
SleepEvent(n, d) == [e |-> "sleep", n |-> n, err |-> "none", d |-> d]

\* backoff_factor * (2 ** attempt), the exponent off by one.
SleepForDoubled(backoff_factor, n) == backoff_factor * Pow2(n)

\* backoff_factor * (2 ** (attempt - 1)); backoff factors are in tenths of a second.
SleepFor(backoff_factor, n) == backoff_factor * Pow2(n - 1)

(***************************************************************************)
(* http_get (src/extractors/utils.py).                                     *)
(***************************************************************************)
\* The call: attempt = 0, last_exc = None.
HttpEnter ==
    /\ hpc' = "loop"
    /\ attempt' = 0
    /\ last_exc' = NoExc
    /\ hlog' = <<>>
    /\ h_exc' = NoExc
    /\ UNCHANGED requests

\* The caller has taken the response or the exception: the frame is gone.
HttpLeave ==
    /\ hpc' = "idle"
    /\ attempt' = 0
    /\ last_exc' = NoExc
    /\ hlog' = <<>>
    /\ h_exc' = NoExc
    /\ UNCHANGED requests

\* One iteration whose request succeeds with a 2xx status: return resp.
HttpAttemptOk ==
    /\ hpc = "loop"
    /\ attempt < config.max_retries
    /\ attempt' = attempt + 1
    /\ requests' = requests + 1
    /\ hlog' = Append(hlog, ReqEvent(attempt + 1, "none"))
    /\ hpc' = "returned"
    /\ UNCHANGED <<last_exc, h_exc>>
    /\ UNCHANGED <<mainVars, searchVars, fetchVars, dedupVars>>

\* A failing iteration that records the error only when none is recorded yet.
HttpAttemptFailKeepFirst ==
    /\ hpc = "loop"
    /\ attempt < config.max_retries
    /\ \E t \in RequestExceptionTypes :
          /\ attempt' = attempt + 1
          /\ requests' = requests + 1
          /\ hlog' = Append(hlog, ReqEvent(attempt + 1, t))
          /\ last_exc' = IF last_exc = NoExc THEN Exc(t, attempt + 1) ELSE last_exc
    /\ hpc' = IF attempt + 1 >= config.max_retries THEN "exit" ELSE "sleep"
    /\ UNCHANGED h_exc
    /\ UNCHANGED <<mainVars, searchVars, fetchVars, dedupVars>>

\* One iteration whose request fails (transport error or non-2xx status):
\* last_exc = exc, then break on the last attempt, else go on to the sleep.
HttpAttemptFail ==
    /\ hpc = "loop"
    /\ attempt < config.max_retries
    /\ \E t \in RequestExceptionTypes :
          /\ attempt' = attempt + 1
          /\ requests' = requests + 1
          /\ hlog' = Append(hlog, ReqEvent(attempt + 1, t))
          /\ last_exc' = Exc(t, attempt + 1)
    /\ hpc' = IF attempt + 1 >= config.max_retries THEN "exit" ELSE "sleep"
    /\ UNCHANGED h_exc
    /\ UNCHANGED <<mainVars, searchVars, fetchVars, dedupVars>>

\* time.sleep(sleep_for); a negative length makes time.sleep raise ValueError.
HttpSleep ==
    /\ hpc = "sleep"
    /\ LET sleep_for == SleepFor(config.backoff_factor, attempt)
       IN  IF sleep_for < 0
           THEN /\ hpc' = "raised"
                /\ h_exc' = Exc("ValueError", 0)
                /\ UNCHANGED hlog
           ELSE /\ hpc' = "loop"
                /\ hlog' = Append(hlog, SleepEvent(attempt, sleep_for))
                /\ UNCHANGED h_exc
    /\ UNCHANGED <<attempt, last_exc, requests>>
    /\ UNCHANGED <<mainVars, searchVars, fetchVars, dedupVars>>

\* After the loop: assert last_exc is not None; raise last_exc.  With no
\* recorded error the assert fails, or, with asserts stripped (python -O),
\* raising None is a TypeError.
HttpRaise ==
    /\ \/ hpc = "exit"
       \/ hpc = "loop" /\ ~(attempt < config.max_retries)
    /\ \E e \in (IF last_exc = NoExc
                 THEN {Exc("AssertionError", 0), Exc("TypeError", 0)}
                 ELSE {last_exc}) : h_exc' = e
    /\ hpc' = "raised"
    /\ UNCHANGED <<attempt, last_exc, hlog, requests>>
    /\ UNCHANGED <<mainVars, searchVars, fetchVars, dedupVars>>

HttpNext == HttpAttemptOk \/ HttpAttemptFail \/ HttpSleep \/ HttpRaise

(***************************************************************************)
(* SoundCloudArtistScraper.fetch_artist_profile.                           *)
(***************************************************************************)
\* An optional artist: <<>> is None, <<a>> is the record a.
NoArtist == <<>>

HydrationArtist == Artist("id1", "u1", "a")
MetaTagArtist   == Artist(Null, "u1", "a")

\* What a fetched profile page parses to: the hydration user block's record,
\* the meta tag fallback's record, or nothing.
ProfileOutcomes == {<<HydrationArtist>>, <<MetaTagArtist>>, NoArtist}

FetchEnter ==
    /\ fpc' = "http"
    /\ f_result' = NoArtist
    /\ f_exc' = NoExc
    /\ HttpEnter

FetchLeave ==
    /\ fpc' = "idle"
    /\ f_result' = NoArtist
    /\ f_exc' = NoExc

\* http_get returned: extract the hydration blocks, normalise, return.
FetchParse ==
    /\ fpc = "http"
    /\ hpc = "returned"
    /\ \E a \in ProfileOutcomes : f_result' = a
    /\ fpc' = "returned"
    /\ HttpLeave
    /\ UNCHANGED f_exc
    /\ UNCHANGED <<mainVars, searchVars, dedupVars>>

\* http_get raised: the exception leaves fetch_artist_profile.
FetchRaise ==
    /\ fpc = "http"
    /\ hpc = "raised"
    /\ f_exc' = h_exc
    /\ fpc' = "raised"
    /\ HttpLeave
    /\ UNCHANGED f_result
    /\ UNCHANGED <<mainVars, searchVars, dedupVars>>

FetchNext == FetchParse \/ FetchRaise

(***************************************************************************)
(* SoundCloudArtistScraper.search_artists.                                 *)
(***************************************************************************)
\* artists[:n]
PySlice(s, n) == IF n >= 0 THEN Take(s, n) ELSE Take(s, Len(s) + n)

\* What a hydration user entry normalises to: a record, or nothing.
EntryOutcomes == {<<HydrationArtist>>, NoArtist}

\* The loop over the hydration entries (lines 117-122).
RECURSIVE HydrationCollect(_, _, _, _)
HydrationCollect(entries, i, n, acc) ==
    IF i > Len(entries) THEN acc
    ELSE IF Len(acc) >= n THEN acc
    ELSE HydrationCollect(entries, i + 1, n, acc \o entries[i])

SearchEnter(keyword, n) ==
    /\ max_items' = n
    /\ artists' = <<>>
    /\ links' = <<>>
    /\ li' = 0
    /\ failed' = {}
    /\ s_result' = <<>>
    /\ IF Strip(keyword) = ""
       THEN /\ spc' = "raised"
            /\ s_exc' = Exc("ValueError", 0)
            /\ UNCHANGED httpVars
       ELSE /\ spc' = "http"
            /\ s_exc' = NoExc
            /\ HttpEnter

SearchLeave ==
    /\ spc' = "idle"
    /\ max_items' = 0
    /\ artists' = <<>>
    /\ links' = <<>>
    /\ li' = 0
    /\ failed' = {}
    /\ s_result' = <<>>
    /\ s_exc' = NoExc

\* The search page arrived: collect the hydration users, return when that
\* fills max_items, else extract the profile links for the fallback.
SearchPage ==
    /\ spc = "http"
    /\ hpc = "returned"
    /\ \E entries \in SeqsUpTo(EntryOutcomes, MaxEntries), n \in 0..MaxLinks :
          LET got == HydrationCollect(entries, 1, max_items, <<>>)
          IN  /\ artists' = got
              /\ IF Len(got) >= max_items
                 THEN /\ spc' = "returned"
                      /\ s_result' = PySlice(got, max_items)
                      /\ UNCHANGED links
                 ELSE /\ spc' = "links"
                      /\ links' = [i \in 1..n |-> i]
                      /\ UNCHANGED s_result
    /\ HttpLeave
    /\ UNCHANGED <<max_items, li, failed, s_exc>>
    /\ UNCHANGED <<mainVars, fetchVars, dedupVars>>

\* http_get raised for the search page: the exception leaves search_artists.
SearchHttpRaise ==
    /\ spc = "http"
    /\ hpc = "raised"
    /\ s_exc' = h_exc
    /\ spc' = "raised"
    /\ HttpLeave
    /\ UNCHANGED <<max_items, artists, links, li, failed, s_result>>
    /\ UNCHANGED <<mainVars, fetchVars, dedupVars>>

\* The fallback loop fetching the next link without the test of line 135.
LinkCallUnguarded ==
    /\ spc = "links"
    /\ li < Len(links)
    /\ spc' = "fetch"
    /\ FetchEnter
    /\ UNCHANGED <<max_items, artists, links, li, failed, s_result, s_exc>>
    /\ UNCHANGED <<mainVars, dedupVars>>

\* The fallback loop, next link: fewer than max_items held, so fetch it.
LinkCall ==
    /\ spc = "links"
    /\ li < Len(links)
    /\ ~(Len(artists) >= max_items)
    /\ spc' = "fetch"
    /\ FetchEnter
    /\ UNCHANGED <<max_items, artists, links, li, failed, s_result, s_exc>>
    /\ UNCHANGED <<mainVars, dedupVars>>

\* The link's profile was fetched: append the artist when there is one.
LinkReturn ==
    /\ spc = "fetch"
    /\ fpc = "returned"
    /\ artists' = artists \o f_result
    /\ li' = li + 1
    /\ spc' = "links"
    /\ FetchLeave
    /\ UNCHANGED <<max_items, links, failed, s_result, s_exc>>
    /\ UNCHANGED <<mainVars, httpVars, dedupVars>>

\* A fallback loop without the try/except: the failure leaves search_artists.
LinkRaisePropagates ==
    /\ spc = "fetch"
    /\ fpc = "raised"
    /\ s_exc' = f_exc
    /\ spc' = "raised"
    /\ FetchLeave
    /\ UNCHANGED <<max_items, artists, links, li, failed, s_result>>
    /\ UNCHANGED <<mainVars, httpVars, dedupVars>>

\* The link's fetch raised: except Exception, log the link (failed), continue.
LinkRaise ==
    /\ spc = "fetch"
    /\ fpc = "raised"
    /\ failed' = failed \cup {links[li + 1]}
    /\ li' = li + 1
    /\ spc' = "links"
    /\ FetchLeave
    /\ UNCHANGED <<max_items, artists, links, s_result, s_exc>>
    /\ UNCHANGED <<mainVars, httpVars, dedupVars>>

\* The fallback loop ends (links exhausted, or the break of line 136).
SearchReturn ==
    /\ spc = "links"
    /\ (li >= Len(links) \/ Len(artists) >= max_items)
    /\ s_result' = PySlice(artists, max_items)
    /\ spc' = "returned"
    /\ UNCHANGED <<max_items, artists, links, li, failed, s_exc>>
    /\ UNCHANGED <<mainVars, fetchVars, httpVars, dedupVars>>

SearchNext ==
    SearchPage \/ SearchHttpRaise \/ LinkCall \/ LinkReturn \/ LinkRaise \/ SearchReturn

(***************************************************************************)
(* export_to_json and main.                                                *)
(***************************************************************************)
NoFile == [written |-> FALSE, data |-> <<>>]

\* export_to_json -> save_json_file: the file is overwritten with the list.
export_to_json(data) == [written |-> TRUE, data |-> data]

\* The input file is looked up, loaded and normalised; a missing file or a
\* failure of the load or the normalisation is SystemExit with code 1.
LoadInput ==
    /\ pc = "start"
    /\ LET c == _normalize_input_config(raw)
       IN  IF input_exists /\ c.ok
           THEN /\ cfg' = c
                /\ pc' = "profiles"
                /\ UNCHANGED exit_code
           ELSE /\ cfg' = IF input_exists THEN c ELSE cfg
                /\ pc' = "exited"
                /\ exit_code' = 1
    /\ UNCHANGED <<input_exists, raw, config, all_artists, pi, ki, out_file,
                   writes, crash_exc>>
    /\ UNCHANGED <<searchVars, fetchVars, httpVars, dedupVars>>

\* for url in profiles: artist = scraper.fetch_artist_profile(url)
ProfileCall ==
    /\ pc = "profiles"
    /\ pi < Len(cfg.profiles)
    /\ pc' = "profile_wait"
    /\ FetchEnter
    /\ UNCHANGED <<input_exists, raw, cfg, config, all_artists, pi, ki, out_file,
                   writes, exit_code, crash_exc>>
    /\ UNCHANGED <<searchVars, dedupVars>>

\* The profile's artist, when there is one, is appended.
ProfileReturn ==
    /\ pc = "profile_wait"
    /\ fpc = "returned"
    /\ all_artists' = all_artists \o f_result
    /\ pi' = pi + 1
    /\ pc' = "profiles"
    /\ FetchLeave
    /\ UNCHANGED <<input_exists, raw, cfg, config, ki, out_file, writes,
                   exit_code, crash_exc>>
    /\ UNCHANGED <<searchVars, httpVars, dedupVars>>

\* The profile loop has no try/except: an exception of fetch_artist_profile
\* leaves main, and the interpreter exits with code 1.
ProfileRaise ==
    /\ pc = "profile_wait"
    /\ fpc = "raised"
    /\ crash_exc' = f_exc
    /\ pc' = "crashed"
    /\ exit_code' = 1
    /\ FetchLeave
    /\ UNCHANGED <<input_exists, raw, cfg, config, all_artists, pi, ki, out_file,
                   writes>>
    /\ UNCHANGED <<searchVars, httpVars, dedupVars>>

\* The profile loop is over: on to the keywords.
ProfilesDone ==
    /\ pc = "profiles"
    /\ ~(pi < Len(cfg.profiles))
    /\ pc' = "keywords"
    /\ UNCHANGED <<input_exists, raw, cfg, config, all_artists, pi, ki, out_file,
                   writes, exit_code, crash_exc>>
    /\ UNCHANGED <<searchVars, fetchVars, httpVars, dedupVars>>

\* for keyword in keywords: artists = scraper.search_artists(keyword, max_items=...)
KeywordCall ==
    /\ pc = "keywords"
    /\ ki < Len(cfg.keywords)
    /\ pc' = "keyword_wait"
    /\ SearchEnter(cfg.keywords[ki + 1], cfg.maxItemsPerKeyword)
    /\ UNCHANGED <<input_exists, raw, cfg, config, all_artists, pi, ki, out_file,
                   writes, exit_code, crash_exc>>
    /\ UNCHANGED <<fetchVars, dedupVars>>

\* all_artists.extend(artists)
KeywordReturn ==
    /\ pc = "keyword_wait"
    /\ spc = "returned"
    /\ all_artists' = all_artists \o s_result
    /\ ki' = ki + 1
    /\ pc' = "keywords"
    /\ SearchLeave
    /\ UNCHANGED <<input_exists, raw, cfg, config, pi, out_file, writes,
                   exit_code, crash_exc>>
    /\ UNCHANGED <<fetchVars, httpVars, dedupVars>>

\* except Exception: the keyword's error is logged and the loop goes on.
KeywordRaise ==
    /\ pc = "keyword_wait"
    /\ spc = "raised"
    /\ ki' = ki + 1
    /\ pc' = "keywords"
    /\ SearchLeave
    /\ UNCHANGED <<input_exists, raw, cfg, config, all_artists, pi, out_file,
                   writes, exit_code, crash_exc>>
    /\ UNCHANGED <<fetchVars, httpVars, dedupVars>>

\* An ending that exports whatever was gathered, the empty list too.
FinishAlwaysExports ==
    /\ pc = "keywords"
    /\ ~(ki < Len(cfg.keywords))
    /\ out_file' = export_to_json(_deduplicate_artists(all_artists))
    /\ writes' = writes + 1
    /\ pc' = "done"
    /\ exit_code' = 0
    /\ UNCHANGED <<input_exists, raw, cfg, config, all_artists, pi, ki, crash_exc>>
    /\ UNCHANGED <<searchVars, fetchVars, httpVars, dedupVars>>

\* The keyword loop is over: warn when nothing was scraped, else deduplicate
\* and export; main returns.
Finish ==
    /\ pc = "keywords"
    /\ ~(ki < Len(cfg.keywords))
    /\ IF all_artists = <<>>
       THEN UNCHANGED <<out_file, writes>>
       ELSE /\ out_file' = export_to_json(_deduplicate_artists(all_artists))
            /\ writes' = writes + 1
    /\ pc' = "done"
    /\ exit_code' = 0
    /\ UNCHANGED <<input_exists, raw, cfg, config, all_artists, pi, ki, crash_exc>>
    /\ UNCHANGED <<searchVars, fetchVars, httpVars, dedupVars>>

MainNext ==
    \/ LoadInput \/ ProfileCall \/ ProfileReturn \/ ProfileRaise \/ ProfilesDone
    \/ KeywordCall \/ KeywordReturn \/ KeywordRaise \/ Finish

(***************************************************************************)
(* The input documents and settings of the runs.                           *)
(***************************************************************************)
Doc(kind, p, k, m) ==
    [kind |-> kind, profiles |-> p, keywords |-> k, maxItemsPerKeyword |-> m]

TwoProfiles == JList(<<JStr("p1"), JInt(7), JStr("  "), JStr(" p2 ")>>)
OneProfile  == JList(<<JStr("p1")>>)
TwoKeywords == JList(<<JStr("k1"), JStr(""), JNull, JStr(" k2 ")>>)
OneKeyword  == JList(<<JStr("k1")>>)

RawProfiles ==
    {JAbsent, JNull, JInt(0), JStr(""), JStr("p1"), JDict(1), JList(<<>>),
     OneProfile, TwoProfiles}
RawKeywords ==
    {JAbsent, JNull, JStr(""), JBool(FALSE), JInt(3), JDict(1), JList(<<>>),
     OneKeyword, TwoKeywords}
RawMaxItems ==
    {JAbsent, JNull, JInt(0), JInt(-1), JInt(1), JInt(2), JStr("2"), JStr("x"),
     JFloat(25), JFloat(5), JBool(TRUE), JInf, JList(<<>>)}

RawDocs ==
    {Doc("object", p, OneKeyword, JInt(1)) : p \in RawProfiles}
    \cup {Doc("object", OneProfile, k, JInt(2)) : k \in RawKeywords}
    \cup {Doc("object", JAbsent, OneKeyword, m) : m \in RawMaxItems}
    \cup {Doc("object", TwoProfiles, TwoKeywords, JInt(2)),
          Doc("object", JAbsent, JAbsent, JAbsent),
          Doc("array", JAbsent, JAbsent, JAbsent),
          Doc("invalid", JAbsent, JAbsent, JAbsent)}

\* settings.get("backoff_factor", 0.5), in tenths of a second.
DefaultBackoffFactor == 5

BackoffFactors == {-5, 0, DefaultBackoffFactor, 10}

MainIdle ==
    /\ pc = "off" /\ input_exists = FALSE
    /\ raw = Doc("object", JAbsent, JAbsent, JAbsent)
    /\ cfg = NoCfg /\ all_artists = <<>> /\ pi = 0 /\ ki = 0
    /\ out_file = NoFile /\ writes = 0 /\ exit_code = -1 /\ crash_exc = NoExc

SearchIdle ==
    /\ spc = "idle" /\ max_items = 0 /\ artists = <<>> /\ links = <<>> /\ li = 0
    /\ failed = {}
    /\ s_result = <<>> /\ s_exc = NoExc

FetchIdle == fpc = "idle" /\ f_result = NoArtist /\ f_exc = NoExc

HttpIdle ==
    /\ hpc = "idle" /\ attempt = 0 /\ last_exc = NoExc /\ hlog = <<>>
    /\ h_exc = NoExc /\ requests = 0

DedupIdle == dd_pc = "idle" /\ dd_in = <<>> /\ dd_out = <<>> /\ dd_twice = <<>>

(***************************************************************************)
(* Spec: a run of main.                                                    *)
(***************************************************************************)
Init ==
    /\ pc = "start"
    /\ \/ input_exists = TRUE /\ raw \in RawDocs
       \/ input_exists = FALSE /\ raw = Doc("object", JAbsent, JAbsent, JAbsent)
    /\ config \in [max_retries : 0..MaxRetries, backoff_factor : {DefaultBackoffFactor}]
    /\ cfg = NoCfg /\ all_artists = <<>> /\ pi = 0 /\ ki = 0
    /\ out_file = NoFile /\ writes = 0 /\ exit_code = -1 /\ crash_exc = NoExc
    /\ SearchIdle /\ FetchIdle /\ HttpIdle /\ DedupIdle

Next == MainNext \/ SearchNext \/ FetchNext \/ HttpNext

Spec == Init /\ [][Next]_vars

(***************************************************************************)
(* SpecHttp: one call of http_get, for every max_retries and backoff.      *)
(***************************************************************************)
InitHttp ==
    /\ MainIdle
    /\ config \in [max_retries : -1..MaxHttpRetries, backoff_factor : BackoffFactors]
    /\ SearchIdle /\ FetchIdle /\ DedupIdle
    /\ hpc = "loop" /\ attempt = 0 /\ last_exc = NoExc /\ hlog = <<>>
    /\ h_exc = NoExc /\ requests = 0

SpecHttp == InitHttp /\ [][HttpNext]_vars

(***************************************************************************)
(* SpecDedup: _deduplicate_artists applied to a list, and to its result.   *)
(***************************************************************************)
DedupRecords ==
    {Artist(id, url, name) :
        id \in {Null, "x", "y"}, url \in {Null, "", "x"}, name \in {"a", "b"}}

InitDedup ==
    /\ MainIdle /\ config = [max_retries |-> 0, backoff_factor |-> 0]
    /\ SearchIdle /\ FetchIdle /\ HttpIdle
    /\ dd_pc = "start" /\ dd_in \in SeqsUpTo(DedupRecords, MaxArtists)
    /\ dd_out = <<>> /\ dd_twice = <<>>

DedupOnce ==
    /\ dd_pc = "start"
    /\ dd_out' = _deduplicate_artists(dd_in)
    /\ dd_pc' = "once"
    /\ UNCHANGED <<dd_in, dd_twice>>
    /\ UNCHANGED <<mainVars, searchVars, fetchVars, httpVars>>

DedupAgain ==
    /\ dd_pc = "once"
    /\ dd_twice' = _deduplicate_artists(dd_out)
    /\ dd_pc' = "twice"
    /\ UNCHANGED <<dd_in, dd_out>>
    /\ UNCHANGED <<mainVars, searchVars, fetchVars, httpVars>>

DedupNext == DedupOnce \/ DedupAgain

SpecDedup == InitDedup /\ [][DedupNext]_vars

(***************************************************************************)
(* Properties.                                                             *)
(***************************************************************************)
IsReq(ev) == ev.e = "req"
IsSleep(ev) == ev.e = "sleep"
ReqEvents(log) == SelectSeq(log, IsReq)
SleepEvents(log) == SelectSeq(log, IsSleep)
Last(s) == s[Len(s)]

\* C1: a profile or keyword whose fetch fails with a network error is skipped
\* and the run goes on: main never ends on a network error, and a run that
\* ends has gone through every profile and every keyword and has exported the
\* deduplicated records it gathered.
C1_NetworkErrorSkipsItem ==
    /\ ~(pc = "crashed" /\ crash_exc.type \in RequestExceptionTypes)
    /\ pc = "done" =>
          /\ pi = Len(cfg.profiles)
          /\ ki = Len(cfg.keywords)
          /\ all_artists # <<>> =>
                out_file = export_to_json(_deduplicate_artists(all_artists))

\* What the input format calls malformed.  A numeric string and a boolean
\* are let pass as integers here; null is read as an absent key.
NotAList(v) == v.t \notin {"absent", "null", "list"}
NotAnInteger(v) ==
    \/ v.t \in {"null", "float", "inf", "list", "dict"}
    \/ v.t = "str" /\ ~PyInt(v).ok
Malformed(doc) ==
    /\ doc.kind = "object"
    /\ \/ NotAList(doc.profiles)
       \/ NotAList(doc.keywords)
       \/ NotAnInteger(doc.maxItemsPerKeyword)
       \/ doc.maxItemsPerKeyword.t = "int" /\ doc.maxItemsPerKeyword.n <= 0
\* C2: a malformed input document (profiles or keywords not a list,
\* maxItemsPerKeyword not an integer or not positive) never gets past the
\* loader: no request is issued and main exits with code 1.
C2_MalformedInputRejected ==
    (input_exists /\ Malformed(raw)) =>
        /\ requests = 0
        /\ pc \in {"start", "exited"}
        /\ pc = "exited" => exit_code = 1

\* C3: http_get issues request n only when n <= max_retries; it returns on
\* the first successful request, which is the last thing it does; and when
\* all max_retries attempts failed it raises the error of the last attempt.
C3_RetryContract ==
    /\ Len(ReqEvents(hlog)) = attempt
    /\ attempt > 0 => attempt <= config.max_retries
    /\ hpc = "returned" =>
          /\ hlog # <<>>
          /\ IsReq(Last(hlog)) /\ Last(hlog).err = "none"
          /\ \A i \in 1..(Len(hlog) - 1) : IsReq(hlog[i]) => hlog[i].err # "none"
    /\ (hpc = "raised" /\ attempt >= 1 /\ attempt = config.max_retries) =>
          /\ IsReq(Last(hlog))
          /\ h_exc = Exc(Last(hlog).err, attempt)
          /\ h_exc.type \in RequestExceptionTypes
          /\ \A i \in 1..Len(hlog) : IsReq(hlog[i]) => hlog[i].err # "none"

\* Three attempts failed, the first and the last with different errors, and
\* http_get has raised.
C3_Witness ==
    /\ hpc = "raised"
    /\ config.max_retries = 3
    /\ attempt = 3
    /\ hlog[1].err # Last(hlog).err
    /\ h_exc.type = Last(hlog).err

\* C4: a backoff sleep happens only between two attempts, after k failures
\* with max_retries = k there are k-1 sleeps, the sleep before attempt n
\* lasts backoff_factor * 2^(n-2), and the sleeps strictly increase for a
\* positive backoff_factor.
C4_BackoffSleeps ==
    /\ \A i \in 1..Len(hlog) :
          IsSleep(hlog[i]) =>
             LET n == Len(ReqEvents(SubSeq(hlog, 1, i))) + 1
             IN  /\ i > 1 /\ IsReq(hlog[i - 1]) /\ hlog[i - 1].err # "none"
                 /\ n >= 2
                 /\ hlog[i].d = config.backoff_factor * Pow2(n - 2)
                 /\ i < Len(hlog) => IsReq(hlog[i + 1])
                 /\ i = Len(hlog) => hpc = "loop" /\ attempt < config.max_retries
    /\ (hpc = "raised" /\ attempt >= 1 /\ attempt = config.max_retries) =>
          Len(SleepEvents(hlog)) = attempt - 1
    /\ config.backoff_factor > 0 =>
          \A i, j \in 1..Len(SleepEvents(hlog)) :
             i < j => SleepEvents(hlog)[i].d < SleepEvents(hlog)[j].d

\* Three consecutive failures with max_retries = 3 and the default backoff:
\* two sleeps, of 0.5 s and 1 s.
C4_Witness ==
    /\ hpc = "raised"
    /\ config = [max_retries |-> 3, backoff_factor |-> DefaultBackoffFactor]
    /\ attempt = 3
    /\ Len(SleepEvents(hlog)) = 2
    /\ SleepEvents(hlog)[1].d = 5 /\ SleepEvents(hlog)[2].d = 10

\* C5: for every max_retries, zero and negative ones too, http_get either
\* returns a response or fails with a RequestException, never another error.
C5_ResponseOrNetworkError ==
    hpc = "raised" => h_exc.type \in RequestExceptionTypes

\* The identity of a record, and the positions a deduplication is to keep.
HasId(a) == a.id # Null
HasUrl(a) == a.permalink_url # Null /\ a.permalink_url # ""
Keyless(a) == ~HasId(a) /\ ~HasUrl(a)
SameIdentity(a, b) ==
    \/ HasId(a) /\ HasId(b) /\ a.id = b.id
    \/ ~HasId(a) /\ ~HasId(b) /\ HasUrl(a) /\ HasUrl(b)
          /\ a.permalink_url = b.permalink_url
FirstOfIdentity(s) ==
    {i \in 1..Len(s) : Keyless(s[i]) \/ \A j \in 1..(i - 1) : ~SameIdentity(s[j], s[i])}
RECURSIVE PickFrom(_, _, _)
PickFrom(s, I, i) ==
    IF i > Len(s) THEN <<>>
    ELSE (IF i \in I THEN <<s[i]>> ELSE <<>>) \o PickFrom(s, I, i + 1)
\* C6: _deduplicate_artists keeps exactly the first record of each identity
\* (the id when it is not null, otherwise the non-empty permalink_url), keeps
\* every record with neither, and keeps the original order.
C6_FirstOccurrenceKept ==
    dd_pc # "start" => dd_out = PickFrom(dd_in, FirstOfIdentity(dd_in), 1)

\* A keyed record, a keyless one and a later record of the same identity as
\* the first but other content: the first two are kept.
C6_Witness ==
    /\ dd_pc = "once"
    /\ Len(dd_in) = 3
    /\ ~HasId(dd_in[1]) /\ SameIdentity(dd_in[1], dd_in[3]) /\ dd_in[1] # dd_in[3]
    /\ Keyless(dd_in[2])
    /\ dd_out = <<dd_in[1], dd_in[2]>>

\* C7: deduplication is idempotent.
C7_Idempotent ==
    dd_pc = "twice" => dd_twice = dd_out

\* Three records of one identity, deduplicated twice: the first is what is left.
C7_Witness ==
    /\ dd_pc = "twice"
    /\ Len(dd_in) = 3
    /\ SameIdentity(dd_in[1], dd_in[2]) /\ SameIdentity(dd_in[1], dd_in[3])
    /\ dd_in[1] # dd_in[3]
    /\ dd_twice = <<dd_in[1]>>

\* C8: search_artists holds and returns at most max_items records, and a
\* fallback profile fetch is under way only while fewer than max_items are held
\* (none when the hydration entries gave max_items, none once it is reached).
C8_AtMostMaxItems ==
    /\ spc \in {"links", "fetch", "returned"} => Len(artists) <= max_items
    /\ spc = "returned" => Len(s_result) <= max_items
    /\ spc = "fetch" => Len(artists) < max_items
    /\ (spc = "returned" /\ li = 0 /\ Len(artists) >= max_items) => links = <<>>

\* The fallback reached max_items with a link left unfetched.
C8_Witness ==
    /\ spc = "returned"
    /\ Len(s_result) = max_items
    /\ li >= 1
    /\ li < Len(links)

\* C9: a failure of fetch_artist_profile for a fallback link is caught: the
\* link is logged and skipped, the loop goes on with the next link, the records
\* held are kept (they only grow during the fallback) and are what is returned.
C9_LinkFailureSkipped ==
    [][/\ (spc = "fetch" /\ fpc = "raised") =>
             /\ spc' = "links"
             /\ li' = li + 1
             /\ failed' = failed \cup {links[li + 1]}
             /\ artists' = artists
       /\ spc \in {"links", "fetch"} =>
             /\ spc' \in {"links", "fetch", "returned"}
             /\ IsPrefix(artists, artists')
             /\ links' = links
             /\ li' >= li
             /\ spc' = "returned" => s_result' = artists
       /\ (spc = "links" /\ spc' = "returned") =>
             li = Len(links) \/ Len(artists) >= max_items]_vars

\* The first link failed, the second was fetched, and the search returned the
\* hydration record and the second link's record.
C9_Witness ==
    /\ spc = "returned"
    /\ Len(links) = 2 /\ li = 2
    /\ failed = {1}
    /\ Len(s_result) = 2

\* C10: the output file is written at most once, only when every profile and
\* keyword is done; no request follows the write; with no record gathered
\* nothing is written and main ends with exit code 0.
C10_ExportOnceAtEnd ==
    /\ [](/\ writes <= 1
          /\ writes = 0 => out_file = NoFile
          /\ writes = 1 =>
                /\ pc = "done"
                /\ pi = Len(cfg.profiles) /\ ki = Len(cfg.keywords)
                /\ spc = "idle" /\ fpc = "idle" /\ hpc = "idle"
                /\ all_artists # <<>>
                /\ out_file = export_to_json(_deduplicate_artists(all_artists))
          /\ (pc = "done" /\ all_artists = <<>>) =>
                writes = 0 /\ exit_code = 0 /\ out_file = NoFile)
    /\ [][/\ writes >= 1 => requests' = requests /\ out_file' = out_file
          /\ out_file' # out_file => writes' = writes + 1]_vars

\* A run that made requests, gathered duplicates and exported once.
C10_Witness ==
    /\ pc = "done"
    /\ writes = 1
    /\ requests >= 2
    /\ Len(out_file.data) < Len(all_artists)

====
